---- MODULE Spec2Model ----
(***************************************************************************)
(* Model of the OCR batch worker: app/main.py (process_files, main) and    *)
(* app/ocr_client.py (call_ocr, _build_url).                               *)
(*                                                                         *)
(* Text is modelled as sequences of Unicode code points and file contents  *)
(* as sequences of bytes (0..255), so that suffix extraction, lower(),     *)
(* the content-type test, JSON parsing, JSON serialisation and UTF-8       *)
(* encoding are computed rather than assumed.                              *)
(***************************************************************************)
EXTENDS Integers, Sequences, FiniteSets, TLC

\* ------------------------------------------------------------------------
\* Generic sequence helpers
\* ------------------------------------------------------------------------

RECURSIVE Flatten(_)
\* Concatenation of a sequence of sequences ("".join(chunks)).
Flatten(ss) == IF ss = <<>> THEN <<>> ELSE Head(ss) \o Flatten(Tail(ss))

\* s[i:] in Python, for a 1-based index i (i = Len(s)+1 gives the empty text).
From(s, i) == SubSeq(s, i, Len(s))

\* s[:k] in Python: the first k elements.
Prefix(s, k) == SubSeq(s, 1, k)

\* Whether sub occurs in s at 1-based position i.
OccursAt(sub, s, i) ==
    /\ i >= 1
    /\ i + Len(sub) - 1 <= Len(s)
    /\ SubSeq(s, i, i + Len(sub) - 1) = sub

\* Python's `sub in s` for str.
Contains(sub, s) == \E i \in 1..(Len(s) + 1) : OccursAt(sub, s, i)

\* Python's s.rfind(c) for a single character, 1-based; 0 when absent.
RFind(s, c) ==
    IF \E i \in 1..Len(s) : s[i] = c
    THEN CHOOSE i \in 1..Len(s) : s[i] = c /\ \A j \in (i+1)..Len(s) : s[j] # c
    ELSE 0

\* Lexicographic order on sequences of code points (Python's str ordering).
RECURSIVE SeqLess(_, _)
SeqLess(a, b) ==
    IF b = <<>> THEN FALSE
    ELSE IF a = <<>> THEN TRUE
    ELSE IF Head(a) # Head(b) THEN Head(a) < Head(b)
    ELSE SeqLess(Tail(a), Tail(b))

\* sorted(S) for a finite set S of texts.
RECURSIVE SortedSeq(_)
SortedSeq(S) ==
    IF S = {} THEN <<>>
    ELSE LET m == CHOOSE x \in S : \A y \in S \ {x} : SeqLess(x, y)
         IN  <<m>> \o SortedSeq(S \ {m})

\* ------------------------------------------------------------------------
\* File names (pathlib) and the extension allow-list
\* ------------------------------------------------------------------------

\* str.lower() on one code point (ASCII and Latin-1 capitals).
LowerChar(c) ==
    IF (c >= 65 /\ c <= 90) \/ (c >= 192 /\ c <= 222 /\ c # 215) THEN c + 32 ELSE c

\* str.lower().
Lower(s) == [k \in 1..Len(s) |-> LowerChar(s[k])]

\* PurePath.suffix: the text from the last "." of the name, unless that dot
\* is the first or the last character of the name (then the suffix is "").
Suffix(name) ==
    LET k == RFind(name, 46)
    IN  IF 1 < k /\ k < Len(name) THEN From(name, k) ELSE <<>>

\* allowed_exts: ".pdf", ".png", ".jpg", ".jpeg", ".tif", ".tiff", ".bmp".
allowed_exts ==
    { <<46,112,100,102>>, <<46,112,110,103>>, <<46,106,112,103>>,
      <<46,106,112,101,103>>, <<46,116,105,102>>, <<46,116,105,102,102>>,
      <<46,98,109,112>> }

Allowed_NoFilter(name) == TRUE

\* The test of the loop head: f.suffix.lower() in allowed_exts.
Allowed(name) == Lower(Suffix(name)) \in allowed_exts

\* ".processed.pdf"
PROCESSED_PDF == <<46,112,114,111,99,101,115,115,101,100,46,112,100,102>>

\* ".json"
DOT_JSON == <<46,106,115,111,110>>

\* f.name + ".processed.pdf": the artifact name of a bytes result.
PdfOutName(name) == name \o PROCESSED_PDF

\* f.name + ".json": the artifact name of any other result.
JsonOutName(name) == name \o DOT_JSON

\* ------------------------------------------------------------------------
\* UTF-8 (the codec of the response text and of the .json artifact)
\* ------------------------------------------------------------------------

Utf8EncodeChar(c) ==
    IF c < 128 THEN <<c>>
    ELSE IF c < 2048 THEN <<192 + (c \div 64), 128 + (c % 64)>>
    ELSE IF c < 65536 THEN <<224 + (c \div 4096), 128 + ((c \div 64) % 64), 128 + (c % 64)>>
    ELSE <<240 + (c \div 262144), 128 + ((c \div 4096) % 64),
           128 + ((c \div 64) % 64), 128 + (c % 64)>>

\* A lone surrogate has no UTF-8 encoding: str.encode raises UnicodeEncodeError.
IsSurrogate(c) == c >= 55296 /\ c <= 57343

\* Whether text.encode("utf-8") succeeds.
Utf8Encodable(text) == \A k \in 1..Len(text) : ~IsSurrogate(text[k])

\* text.encode("utf-8"), for an encodable text.
Utf8Encode(text) == Flatten([k \in 1..Len(text) |-> Utf8EncodeChar(text[k])])

IsCont(b, i) == i <= Len(b) /\ b[i] >= 128 /\ b[i] < 192

RECURSIVE Utf8Decode(_)
\* bytes.decode("utf-8", errors="replace"): an undecodable byte becomes U+FFFD.
Utf8Decode(b) ==
    IF b = <<>> THEN <<>>
    ELSE LET c == b[1] IN
         IF c < 128 THEN <<c>> \o Utf8Decode(From(b, 2))
         ELSE IF c >= 194 /\ c < 224 /\ IsCont(b, 2)
              THEN <<(c - 192) * 64 + (b[2] - 128)>> \o Utf8Decode(From(b, 3))
         ELSE IF c >= 224 /\ c < 240 /\ IsCont(b, 2) /\ IsCont(b, 3)
                 /\ (c - 224) * 4096 + (b[2] - 128) * 64 >= 2048
                 /\ ~IsSurrogate((c - 224) * 4096 + (b[2] - 128) * 64 + (b[3] - 128))
              THEN <<(c - 224) * 4096 + (b[2] - 128) * 64 + (b[3] - 128)>>
                   \o Utf8Decode(From(b, 4))
         ELSE IF c >= 240 /\ c < 245 /\ IsCont(b, 2) /\ IsCont(b, 3) /\ IsCont(b, 4)
                 /\ (c - 240) * 262144 + (b[2] - 128) * 4096 >= 65536
                 /\ (c - 240) * 262144 + (b[2] - 128) * 4096 < 1114112
              THEN <<(c - 240) * 262144 + (b[2] - 128) * 4096 + (b[3] - 128) * 64
                     + (b[4] - 128)>> \o Utf8Decode(From(b, 5))
         ELSE <<65533>> \o Utf8Decode(From(b, 2))

\* ------------------------------------------------------------------------
\* JSON values, json.loads (behind resp.json()) and json.dump(indent=2,
\* ensure_ascii=False).  Numbers are modelled for integers only; floats,
\* NaN and Infinity are outside the model.
\* ------------------------------------------------------------------------

JNull == [t |-> "null", v |-> <<>>]
JBool(b) == [t |-> "bool", v |-> b]
JNum(n) == [t |-> "num", v |-> n]
JStr(chars) == [t |-> "str", v |-> chars]
JArr(items) == [t |-> "arr", v |-> items]
\* A dict: a sequence of <<key text, value>> pairs in insertion order.
JObj(pairs) == [t |-> "obj", v |-> pairs]

ParseFail == [ok |-> FALSE, v |-> JNull, end |-> 0]
ParseOk(val, e) == [ok |-> TRUE, v |-> val, end |-> e]

\* JSON whitespace: space, \t, \n, \r.
IsWs(c) == c \in {32, 9, 10, 13}
IsDigit(c) == c >= 48 /\ c <= 57
IsHex(c) == IsDigit(c) \/ (c >= 97 /\ c <= 102) \/ (c >= 65 /\ c <= 70)
HexVal(c) == IF IsDigit(c) THEN c - 48 ELSE IF c >= 97 THEN c - 87 ELSE c - 55

RECURSIVE SkipWs(_, _)
SkipWs(s, i) == IF i <= Len(s) /\ IsWs(s[i]) THEN SkipWs(s, i + 1) ELSE i

\* Whether s[i..i+3] are four hex digits.
Hex4At(s, i) == i + 3 <= Len(s) /\ \A k \in i..(i + 3) : IsHex(s[k])
Hex4Val(s, i) ==
    HexVal(s[i]) * 4096 + HexVal(s[i+1]) * 256 + HexVal(s[i+2]) * 16 + HexVal(s[i+3])

\* d[key] = val on a dict: a repeated key keeps its place and takes the new value.
DictSet(pairs, key, val) ==
    IF \E k \in 1..Len(pairs) : pairs[k][1] = key
    THEN [k \in 1..Len(pairs) |-> IF pairs[k][1] = key THEN <<key, val>> ELSE pairs[k]]
    ELSE Append(pairs, <<key, val>>)

\* The characters a backslash may be followed by, and what they stand for.
Unescape(c) ==
    CASE c = 34 -> 34 [] c = 92 -> 92 [] c = 47 -> 47 [] c = 98 -> 8
      [] c = 102 -> 12 [] c = 110 -> 10 [] c = 114 -> 13 [] c = 116 -> 9
      [] OTHER -> -1

RECURSIVE ScanString(_, _, _)
\* scanstring (strict): s[i] is the first character after the opening quote.
ScanString(s, i, acc) ==
    IF i > Len(s) THEN ParseFail
    ELSE LET c == s[i] IN
      IF c = 34 THEN ParseOk(JStr(acc), i + 1)
      ELSE IF c < 32 THEN ParseFail
      ELSE IF c # 92 THEN ScanString(s, i + 1, Append(acc, c))
      ELSE IF i + 1 > Len(s) THEN ParseFail
      ELSE IF s[i+1] # 117
           THEN IF Unescape(s[i+1]) < 0 THEN ParseFail
                ELSE ScanString(s, i + 2, Append(acc, Unescape(s[i+1])))
      ELSE IF ~Hex4At(s, i + 2) THEN ParseFail
      ELSE LET u == Hex4Val(s, i + 2) IN
           IF u >= 55296 /\ u <= 56319 /\ OccursAt(<<92, 117>>, s, i + 6)
              /\ Hex4At(s, i + 8)
              /\ Hex4Val(s, i + 8) >= 56320 /\ Hex4Val(s, i + 8) <= 57343
           THEN ScanString(s, i + 12,
                    Append(acc, 65536 + (u - 55296) * 1024 + (Hex4Val(s, i + 8) - 56320)))
           ELSE ScanString(s, i + 6, Append(acc, u))

RECURSIVE ScanDigits(_, _, _)
\* [1-9]\d* continued: the value and the index after the last digit.
ScanDigits(s, i, n) ==
    IF i <= Len(s) /\ IsDigit(s[i]) THEN ScanDigits(s, i + 1, n * 10 + (s[i] - 48))
    ELSE [n |-> n, end |-> i]

\* NUMBER_RE, integer part: -?(0|[1-9]\d*).
ScanNumber(s, i) ==
    LET neg == s[i] = 45
        j == IF neg THEN i + 1 ELSE i
    IN  IF j > Len(s) \/ ~IsDigit(s[j]) THEN ParseFail
        ELSE LET d == IF s[j] = 48 THEN [n |-> 0, end |-> j + 1]
                      ELSE ScanDigits(s, j, 0)
             IN  ParseOk(JNum(IF neg THEN 0 - d.n ELSE d.n), d.end)

RECURSIVE ScanOnce(_, _)
RECURSIVE ArrayItems(_, _, _)
RECURSIVE ObjectItems(_, _, _)

\* JSONArray after "[" and whitespace: one item, then "," or "]".
ArrayItems(s, i, acc) ==
    LET r == ScanOnce(s, i) IN
    IF ~r.ok THEN ParseFail
    ELSE LET j == SkipWs(s, r.end) IN
         IF j > Len(s) THEN ParseFail
         ELSE IF s[j] = 93 THEN ParseOk(JArr(Append(acc, r.v)), j + 1)
         ELSE IF s[j] = 44 THEN ArrayItems(s, SkipWs(s, j + 1), Append(acc, r.v))
         ELSE ParseFail

\* JSONObject at the opening quote of a key: key, ":", value, then "," or "}".
ObjectItems(s, i, acc) ==
    IF i > Len(s) \/ s[i] # 34 THEN ParseFail
    ELSE LET k == ScanString(s, i + 1, <<>>) IN
      IF ~k.ok THEN ParseFail
      ELSE LET c == SkipWs(s, k.end) IN
        IF c > Len(s) \/ s[c] # 58 THEN ParseFail
        ELSE LET r == ScanOnce(s, SkipWs(s, c + 1)) IN
          IF ~r.ok THEN ParseFail
          ELSE LET j == SkipWs(s, r.end)
                   d == DictSet(acc, k.v.v, r.v)
               IN  IF j > Len(s) THEN ParseFail
                   ELSE IF s[j] = 125 THEN ParseOk(JObj(d), j + 1)
                   ELSE IF s[j] = 44 THEN ObjectItems(s, SkipWs(s, j + 1), d)
                   ELSE ParseFail

\* scan_once: one JSON value starting at s[i].
ScanOnce(s, i) ==
    IF i > Len(s) THEN ParseFail
    ELSE LET c == s[i] IN
      IF c = 34 THEN ScanString(s, i + 1, <<>>)
      ELSE IF c = 123
           THEN LET j == SkipWs(s, i + 1) IN
                IF j <= Len(s) /\ s[j] = 125 THEN ParseOk(JObj(<<>>), j + 1)
                ELSE ObjectItems(s, j, <<>>)
      ELSE IF c = 91
           THEN LET j == SkipWs(s, i + 1) IN
                IF j <= Len(s) /\ s[j] = 93 THEN ParseOk(JArr(<<>>), j + 1)
                ELSE ArrayItems(s, j, <<>>)
      ELSE IF OccursAt(<<110,117,108,108>>, s, i) THEN ParseOk(JNull, i + 4)
      ELSE IF OccursAt(<<116,114,117,101>>, s, i) THEN ParseOk(JBool(TRUE), i + 4)
      ELSE IF OccursAt(<<102,97,108,115,101>>, s, i) THEN ParseOk(JBool(FALSE), i + 5)
      ELSE ScanNumber(s, i)

\* json.loads(text): one value with optional whitespace around it and nothing
\* else.  ok = FALSE stands for JSONDecodeError.
Loads(text) ==
    LET r == ScanOnce(text, SkipWs(text, 1)) IN
    IF r.ok /\ SkipWs(text, r.end) = Len(text) + 1 THEN r ELSE ParseFail

RECURSIVE Digits(_)
\* str(n) for n >= 0.
Digits(n) == IF n < 10 THEN <<48 + n>> ELSE Digits(n \div 10) \o <<48 + (n % 10)>>

\* int.__repr__.
IntRepr(n) == IF n < 0 THEN <<45>> \o Digits(0 - n) ELSE Digits(n)

HexDigit(d) == IF d < 10 THEN 48 + d ELSE 87 + d

EscapeChar_None(c) == <<c>>

\* ESCAPE_DCT of json.encoder, as used with ensure_ascii=False: only the
\* quote, the backslash and control characters are escaped.
EscapeChar(c) ==
    CASE c = 34 -> <<92, 34>> [] c = 92 -> <<92, 92>> [] c = 10 -> <<92, 110>>
      [] c = 13 -> <<92, 114>> [] c = 9 -> <<92, 116>> [] c = 8 -> <<92, 98>>
      [] c = 12 -> <<92, 102>>
      [] OTHER -> IF c < 32
                  THEN <<92, 117, 48, 48, HexDigit(c \div 16), HexDigit(c % 16)>>
                  ELSE <<c>>

\* encode_basestring: the quoted form of a text.
EncodeString(chars) ==
    <<34>> \o Flatten([k \in 1..Len(chars) |-> EscapeChar(chars[k])]) \o <<34>>

RECURSIVE Spaces(_)
Spaces(n) == IF n <= 0 THEN <<>> ELSE <<32>> \o Spaces(n - 1)

\* "\n" + " " * (indent * level)
NewlineIndent(level) == <<10>> \o Spaces(2 * level)

RECURSIVE Dumps(_, _)
RECURSIVE JoinItems(_, _, _)
\* The items of a list (isObj = FALSE) or dict, each after its separator.
JoinItems(items, level, isObj) ==
    Flatten([k \in 1..Len(items) |->
        (IF k = 1 THEN <<>> ELSE <<44>>) \o NewlineIndent(level)
        \o (IF isObj
            THEN EncodeString(items[k][1]) \o <<58, 32>> \o Dumps(items[k][2], level)
            ELSE Dumps(items[k], level))])

\* _iterencode with indent=2, joined: the text json.dump writes for a value
\* nested `level` deep.
Dumps(val, level) ==
    CASE val.t = "null" -> <<110,117,108,108>>
      [] val.t = "bool" -> IF val.v THEN <<116,114,117,101>> ELSE <<102,97,108,115,101>>
      [] val.t = "num" -> IntRepr(val.v)
      [] val.t = "str" -> EncodeString(val.v)
      [] val.t = "arr" ->
            IF val.v = <<>> THEN <<91, 93>>
            ELSE <<91>> \o JoinItems(val.v, level + 1, FALSE)
                 \o NewlineIndent(level) \o <<93>>
      [] val.t = "obj" ->
            IF val.v = <<>> THEN <<123, 125>>
            ELSE <<123>> \o JoinItems(val.v, level + 1, TRUE)
                 \o NewlineIndent(level) \o <<125>>

\* ------------------------------------------------------------------------
\* _build_url: str.rstrip and urllib.parse.urljoin (urlparse, urlunparse)
\* over texts without control characters, spaces and brackets
\* ------------------------------------------------------------------------

\* Python's s.find(c, start) for one character, 1-based; 0 when absent.
Find(s, c, start) ==
    IF \E i \in start..Len(s) : s[i] = c
    THEN CHOOSE i \in start..Len(s) : s[i] = c /\ \A j \in start..(i - 1) : s[j] # c
    ELSE 0

RECURSIVE RStrip(_, _)
\* s.rstrip(c) for one character.
RStrip(s, c) ==
    IF s # <<>> /\ s[Len(s)] = c THEN RStrip(Prefix(s, Len(s) - 1), c) ELSE s

RECURSIVE Split(_, _)
\* s.split(sep) for one character: "" gives [""].
Split(s, sep) ==
    LET i == Find(s, sep, 1)
    IN  IF i = 0 THEN <<s>> ELSE <<Prefix(s, i - 1)>> \o Split(From(s, i + 1), sep)

RECURSIVE Join(_, _)
\* sep.join(parts).
Join(parts, sep) ==
    IF parts = <<>> THEN <<>>
    ELSE IF Len(parts) = 1 THEN parts[1]
    ELSE parts[1] \o <<sep>> \o Join(Tail(parts), sep)

\* c.isascii() and c.isalpha()
IsAsciiAlpha(c) == (c >= 65 /\ c <= 90) \/ (c >= 97 /\ c <= 122)

\* scheme_chars: letters, digits, "+", "-", ".".
IsSchemeChar(c) == IsAsciiAlpha(c) \/ IsDigit(c) \/ c \in {43, 45, 46}

\* urllib.parse.uses_relative: the schemes a relative reference is resolved for.
uses_relative ==
    { <<>>, <<102,116,112>>, <<104,116,116,112>>, <<103,111,112,104,101,114>>,
      <<110,110,116,112>>, <<105,109,97,112>>, <<119,97,105,115>>, <<102,105,108,101>>,
      <<104,116,116,112,115>>, <<115,104,116,116,112>>, <<109,109,115>>,
      <<112,114,111,115,112,101,114,111>>, <<114,116,115,112>>,
      <<114,116,115,112,115>>, <<114,116,115,112,117>>, <<115,102,116,112>>,
      <<115,118,110>>, <<115,118,110,43,115,115,104>>, <<119,115>>, <<119,115,115>> }

\* urllib.parse.uses_netloc: the schemes written with "//".
uses_netloc ==
    { <<>>, <<102,116,112>>, <<104,116,116,112>>, <<103,111,112,104,101,114>>,
      <<110,110,116,112>>, <<116,101,108,110,101,116>>, <<105,109,97,112>>,
      <<119,97,105,115>>, <<102,105,108,101>>, <<109,109,115>>,
      <<104,116,116,112,115>>, <<115,104,116,116,112>>, <<115,110,101,119,115>>,
      <<112,114,111,115,112,101,114,111>>, <<114,116,115,112>>,
      <<114,116,115,112,115>>, <<114,116,115,112,117>>, <<114,115,121,110,99>>,
      <<115,118,110>>, <<115,118,110,43,115,115,104>>, <<115,102,116,112>>,
      <<110,102,115>>, <<103,105,116>>, <<103,105,116,43,115,115,104>>, <<119,115>>,
      <<119,115,115>> }

\* urllib.parse.uses_params: the schemes whose last path segment may carry ";params".
uses_params ==
    { <<>>, <<102,116,112>>, <<104,100,108>>, <<112,114,111,115,112,101,114,111>>,
      <<104,116,116,112>>, <<105,109,97,112>>, <<104,116,116,112,115>>,
      <<115,104,116,116,112>>, <<114,116,115,112>>, <<114,116,115,112,115>>,
      <<114,116,115,112,117>>, <<115,105,112>>, <<115,105,112,115>>, <<109,109,115>>,
      <<115,102,116,112>>, <<116,101,108>> }

\* "/"
SLASH == 47

\* "process-pdf"
PROCESS_PDF == <<112,114,111,99,101,115,115,45,112,100,102>>

\* The element of a set of one element.  TheOne({e(x) : x \in {v}}) is e at
\* x = v, with v computed once.
TheOne(S) == CHOOSE x \in S : TRUE

\* The scheme of a URL and the text after its ":"; `scheme` and the whole text
\* when the URL names no scheme (url.find(":") and the test of scheme_chars).
CutScheme(url, scheme) ==
    LET i == Find(url, 58, 1) IN
    IF i > 1 /\ IsAsciiAlpha(url[1]) /\ \A k \in 1..(i - 1) : IsSchemeChar(url[k])
    THEN [scheme |-> Lower(Prefix(url, i - 1)), rest |-> From(url, i + 1)]
    ELSE [scheme |-> scheme, rest |-> url]

\* `if url[:2] == "//"` and _splitnetloc(url, 2): the authority after "//"
\* ends at the first of "/", "?" and "#".
CutNetloc(url) ==
    IF Len(url) >= 2 /\ url[1] = 47 /\ url[2] = 47
    THEN LET ends == {i \in 3..Len(url) : url[i] \in {47, 63, 35}}
             delim == IF ends = {} THEN Len(url) + 1
                      ELSE CHOOSE i \in ends : \A j \in ends : i <= j
         IN  [netloc |-> SubSeq(url, 3, delim - 1), rest |-> From(url, delim)]
    ELSE [netloc |-> <<>>, rest |-> url]

\* url.split(c, 1) when c is in url: the text before and after the first c.
CutAt(text, c) ==
    LET i == Find(text, c, 1) IN
    IF i > 0 THEN [head |-> Prefix(text, i - 1), tail |-> From(text, i + 1)]
    ELSE [head |-> text, tail |-> <<>>]

\* urlsplit(url, scheme): scheme, netloc, path, query and fragment of a URL;
\* `scheme` is the default when the URL names none.  The fragment is cut off
\* at the first "#", then the query at the first "?".
UrlSplit(url, scheme) ==
    TheOne({ TheOne({ TheOne({ TheOne({
        [scheme |-> a.scheme, netloc |-> b.netloc, path |-> q.head, query |-> q.tail,
         fragment |-> f.tail]
        : q \in {CutAt(f.head, 63)} })
        : f \in {CutAt(b.rest, 35)} })
        : b \in {CutNetloc(a.rest)} })
        : a \in {CutScheme(url, scheme)} })

\* _splitparams(url): the position of the ";" that starts the params of the
\* last path segment, 0 when there is none.
ParamsAt(path) ==
    IF Find(path, 47, 1) > 0 THEN Find(path, 59, RFind(path, 47)) ELSE Find(path, 59, 1)

\* The six components of urlparse from the five of urlsplit: the params are
\* cut off the path.
WithParams(s) ==
    LET cut == s.scheme \in uses_params /\ Find(s.path, 59, 1) > 0 /\ ParamsAt(s.path) > 0
    IN  [scheme |-> s.scheme, netloc |-> s.netloc,
         path |-> IF cut THEN Prefix(s.path, ParamsAt(s.path) - 1) ELSE s.path,
         params |-> IF cut THEN From(s.path, ParamsAt(s.path) + 1) ELSE <<>>,
         query |-> s.query, fragment |-> s.fragment]

\* urlparse(url, scheme).
UrlParse(url, scheme) == TheOne({ WithParams(s) : s \in {UrlSplit(url, scheme)} })

\* urlunparse / urlunsplit: the text of a URL from its six components.
UrlUnparse(p) ==
    LET u0 == IF p.params # <<>> THEN p.path \o <<59>> \o p.params ELSE p.path
        slashes == p.netloc # <<>>
                   \/ (p.scheme # <<>> /\ p.scheme \in uses_netloc
                       /\ ~(Len(u0) >= 2 /\ u0[1] = 47 /\ u0[2] = 47))
        u1 == IF slashes
              THEN <<47, 47>> \o p.netloc
                   \o (IF u0 # <<>> /\ u0[1] # 47 THEN <<47>> \o u0 ELSE u0)
              ELSE u0
        u2 == IF p.scheme # <<>> THEN p.scheme \o <<58>> \o u1 ELSE u1
        u3 == IF p.query # <<>> THEN u2 \o <<63>> \o p.query ELSE u2
    IN  IF p.fragment # <<>> THEN u3 \o <<35>> \o p.fragment ELSE u3

\* segments[1:-1] = filter(None, segments[1:-1]): the empty segments between
\* the first and the last are dropped.
DropInnerEmpty(segments) ==
    LET n == Len(segments)
        keep == {k \in 1..n : k = 1 \/ k = n \/ segments[k] # <<>>}
        pick[j \in 0..n] ==
            IF j = 0 THEN <<>>
            ELSE IF j \in keep THEN Append(pick[j - 1], segments[j]) ELSE pick[j - 1]
    IN  pick[n]

RECURSIVE ResolveDots(_, _)
\* The loop over segments: ".." pops (when there is something to pop), "."
\* is skipped, anything else is appended.
ResolveDots(segments, resolved) ==
    IF segments = <<>> THEN resolved
    ELSE LET seg == Head(segments) IN
         IF seg = <<46, 46>>
         THEN ResolveDots(Tail(segments),
                          IF resolved = <<>> THEN resolved
                          ELSE Prefix(resolved, Len(resolved) - 1))
         ELSE IF seg = <<46>> THEN ResolveDots(Tail(segments), resolved)
         ELSE ResolveDots(Tail(segments), Append(resolved, seg))

\* The segments the path of the reference is resolved over: its own when it
\* starts with "/", else those of the base path without its last segment
\* (unless that is empty) followed by its own.
JoinSegments(bpath, path) ==
    IF path # <<>> /\ path[1] = 47 THEN Split(path, 47)
    ELSE TheOne({ DropInnerEmpty(
                     (IF baseParts[Len(baseParts)] # <<>>
                      THEN Prefix(baseParts, Len(baseParts) - 1) ELSE baseParts)
                     \o Split(path, 47))
                  : baseParts \in {Split(bpath, 47)} })

\* The resolved path: the segments with the dots resolved, "" appended when
\* the last segment was "." or "..", joined by "/"; "/" when that is empty.
ResolvedPath(segments) ==
    TheOne({ IF joined = <<>> THEN <<47>> ELSE joined
             : joined \in { Join(IF segments[Len(segments)] \in {<<46>>, <<46, 46>>}
                                 THEN Append(ResolveDots(segments, <<>>), <<>>)
                                 ELSE ResolveDots(segments, <<>>), 47) } })

\* urljoin, after both URLs are parsed: b the base, r the reference `url`.
JoinParsed(b, r, url) ==
    IF r.scheme # b.scheme \/ r.scheme \notin uses_relative THEN url
    ELSE IF r.scheme \in uses_netloc /\ r.netloc # <<>> THEN UrlUnparse(r)
    ELSE IF r.path = <<>> /\ r.params = <<>>
    THEN UrlUnparse([scheme |-> r.scheme,
                     netloc |-> IF r.scheme \in uses_netloc THEN b.netloc ELSE r.netloc,
                     path |-> b.path, params |-> b.params,
                     query |-> IF r.query = <<>> THEN b.query ELSE r.query,
                     fragment |-> r.fragment])
    ELSE TheOne({ UrlUnparse([scheme |-> r.scheme,
                              netloc |-> IF r.scheme \in uses_netloc
                                         THEN b.netloc ELSE r.netloc,
                              path |-> ResolvedPath(segments),
                              params |-> r.params, query |-> r.query,
                              fragment |-> r.fragment])
                  : segments \in {JoinSegments(b.path, r.path)} })

\* urljoin(base, url).
UrlJoin(base, url) ==
    IF base = <<>> THEN url
    ELSE IF url = <<>> THEN base
    ELSE TheOne({ TheOne({ JoinParsed(b, r, url) : r \in {UrlParse(url, b.scheme)} })
                  : b \in {UrlParse(base, <<>>)} })

\* base.rstrip("/")
StripSlashes(base) == RStrip(base, SLASH)

\* _build_url(base): urljoin(base.rstrip("/") + "/", "process-pdf")
BuildUrl(base) ==
    TheOne({ UrlJoin(stripped \o <<SLASH>>, PROCESS_PDF) : stripped \in {StripSlashes(base)} })

\* ------------------------------------------------------------------------
\* Bounds and the finite universe the runs are explored over
\* ------------------------------------------------------------------------

\* How many runs of the worker (process invocations) a behaviour holds.
MaxRuns == 2

\* Entries of the input directory at the start: ".pdf" (a hidden file without
\* suffix), "B.PNG", "a.pdf", "c.txt" are regular files, "d.tif" a directory.
N_HIDDEN == <<46,112,100,102>>
N_B == <<66,46,80,78,71>>
N_A == <<97,46,112,100,102>>
N_C == <<99,46,116,120,116>>
N_D == <<100,46,116,105,102>>

Names == {N_HIDDEN, N_B, N_A, N_C, N_D}

NoEntry == [kind |-> "none", data |-> <<>>]

InitialInDir ==
    [n \in Names |->
        CASE n = N_HIDDEN -> [kind |-> "file", data |-> <<37>>]
          [] n = N_B -> [kind |-> "file", data |-> <<137, 80>>]
          [] n = N_A -> [kind |-> "file", data |-> <<37, 80, 68>>]
          [] n = N_C -> [kind |-> "file", data |-> <<104, 105>>]
          [] n = N_D -> [kind |-> "dir", data |-> <<>>]]

\* Every path a run can write in the output directory.
OutNames == {PdfOutName(n) : n \in Names} \cup {JsonOutName(n) : n \in Names}

NoFile == [exists |-> FALSE, data |-> <<>>]
File(bytes) == [exists |-> TRUE, data |-> bytes]

\* Response bodies the service may send.
\* "%PDF"
B_PDF == <<37,80,68,70>>
\* the empty body
B_EMPTY == <<>>
\* null
B_NULL == <<110,117,108,108>>
\* "é\n"  (a JSON string holding a non-ASCII character and an escape)
B_STR == <<34,195,169,92,110,34>>
\* -12
B_NUM == <<45,49,50>>
\* [1,null]
B_ARR == <<91,49,44,110,117,108,108,93>>
\* {"t": "h\"i"}
B_OBJ == <<123,34,116,34,58,32,34,104,92,34,105,34,125>>
\* "\ud800"  (a JSON string holding a lone surrogate escape)
B_SURR == <<34,92,117,100,56,48,48,34>>

Bodies == {B_PDF, B_EMPTY, B_NULL, B_STR, B_NUM, B_ARR, B_OBJ, B_SURR}

\* Content-type header values; NoHeader stands for a response without one.
NoHeader == <<-1>>
\* application/pdf
CT_PDF == <<97,112,112,108,105,99,97,116,105,111,110,47,112,100,102>>
\* application/json
APPLICATION_JSON == <<97,112,112,108,105,99,97,116,105,111,110,47,106,115,111,110>>
\* application/json; charset=utf-8
CT_JSON_CHARSET == APPLICATION_JSON \o <<59,32,99,104,97,114,115,101,116,61,117,116,102,45,56>>
\* Application/JSON
CT_UPPER == <<65,112,112,108,105,99,97,116,105,111,110,47,74,83,79,78>>

CTypes == {NoHeader, CT_PDF, APPLICATION_JSON, CT_JSON_CHARSET, CT_UPPER}

\* What one requests.post can end in: no response at all (a network error,
\* status 0 here) or a response with a status, headers and a body.
NetError == [status |-> 0, ctype |-> NoHeader, body |-> <<>>]

\* Successful statuses with every pairing of header and body that matters:
\* a header that does not declare JSON over a PDF, an empty and a JSON-looking
\* body, and a header that declares JSON over every body.
Responses ==
    [status : {200}, ctype : {NoHeader, CT_PDF, CT_UPPER}, body : {B_PDF, B_EMPTY, B_OBJ}]
    \cup [status : {200}, ctype : {APPLICATION_JSON, CT_JSON_CHARSET}, body : Bodies]
    \cup { [status |-> st, ctype |-> NoHeader, body |-> B_PDF] : st \in {101, 204, 304, 404, 500} }
    \cup { [status |-> st, ctype |-> APPLICATION_JSON, body |-> B_OBJ] : st \in {204, 304, 500} }
    \cup { [status |-> 304, ctype |-> APPLICATION_JSON, body |-> B_PDF] }

PostOutcomes == {NetError} \cup Responses

\* A service that answers in one of a few ways only: no response, a 500, a
\* PDF, a JSON object, or a body that is not the JSON its header declares.
FewOutcomes ==
    { NetError,
      [status |-> 500, ctype |-> NoHeader, body |-> B_PDF],
      [status |-> 200, ctype |-> CT_PDF, body |-> B_PDF],
      [status |-> 200, ctype |-> APPLICATION_JSON, body |-> B_OBJ],
      [status |-> 200, ctype |-> APPLICATION_JSON, body |-> B_PDF] }

\* An input directory holding the one file "a.pdf".
SingleInDir == [n \in Names |-> IF n = N_A THEN InitialInDir[n] ELSE NoEntry]

\* The deployments explored: one file against a service that may answer in
\* every way of PostOutcomes, with either behaviour of the installed requests;
\* and the full directory against FewOutcomes with a current requests.
Deployments ==
    { [service |-> PostOutcomes, dir |-> SingleInDir, jsonErr |-> TRUE],
      [service |-> PostOutcomes, dir |-> SingleInDir, jsonErr |-> FALSE],
      [service |-> FewOutcomes, dir |-> InitialInDir, jsonErr |-> TRUE] }

\* The base URLs _build_url is explored over: every concatenation of a
\* scheme part, an authority, a path, a tail and a run of trailing slashes.
\* "http:", "https:"
UrlSchemes == { <<104,116,116,112,58>>, <<104,116,116,112,115,58>> }
\* "//h", "//h:8"
UrlAuthorities == { <<47,47,104>>, <<47,47,104,58,56>> }
\* "", "/a", "/a/b", "/a/../b", "/a//b", "/."
UrlPaths == { <<>>, <<47,97>>, <<47,97,47,98>>, <<47,97,47,46,46,47,98>>, <<47,97,47,47,98>>, <<47,46>> }
\* "", "?q", "#f", ";p"
UrlTails == { <<>>, <<63,113>>, <<35,102>>, <<59,112>> }
\* "", "/", "//"
UrlSlashes == { <<>>, <<47>>, <<47,47>> }

BaseUrls ==
    { a \o b \o c \o d \o e :
        a \in UrlSchemes, b \in UrlAuthorities, c \in UrlPaths, d \in UrlTails,
        e \in UrlSlashes }

\* os.getenv("OCR_SERVICE_URL", "http://ocr-service:8000"): the default.
DEFAULT_OCR_URL == <<104,116,116,112,58,47,47,111,99,114,45,115,101,114,118,105,99,101,58,56,48,48,48>>

\* A service that fails to answer or answers with a PDF or a JSON object.
PlainOutcomes ==
    { NetError,
      [status |-> 200, ctype |-> CT_PDF, body |-> B_PDF],
      [status |-> 200, ctype |-> APPLICATION_JSON, body |-> B_OBJ] }

\* The deployments explored with the POSTs of each run counted: the full
\* directory against PlainOutcomes.
MeteredDeployments ==
    { [service |-> PlainOutcomes, dir |-> InitialInDir, jsonErr |-> TRUE] }

\* ------------------------------------------------------------------------
\* call_ocr: the pieces of one attempt
\* ------------------------------------------------------------------------

\* The attempt on which the handler re-raises: `if attempt >= 3`.
LAST_ATTEMPT == 3

\* resp.raise_for_status(): HTTPError for a 4xx or 5xx status, nothing else.
RaisesForStatus(status) == status >= 400 /\ status < 600

\* resp.headers.get("content-type", "")
ContentType(resp) == IF resp.ctype = NoHeader THEN <<>> ELSE resp.ctype

IsJsonResponse_Exact(resp) == ContentType(resp) = APPLICATION_JSON

\* "application/json" in content_type
IsJsonResponse(resp) == Contains(APPLICATION_JSON, ContentType(resp))

\* resp.json(): the body decoded and handed to json.loads.
RespJson(resp) == Loads(Utf8Decode(resp.body))

Backoff_Doubled(attempt) == 2 ^ attempt

\* backoff = 2 ** (attempt - 1)
Backoff(attempt) == 2 ^ (attempt - 1)

IsFinalAttempt_OffByOne(attempt) == attempt > LAST_ATTEMPT

\* `if attempt >= 3: raise`
IsFinalAttempt(attempt) == attempt >= LAST_ATTEMPT

\* The kinds of exception an attempt raises: requests.post (no response),
\* resp.raise_for_status(), resp.json().
NetworkErrorKind == "ConnectionError"
JsonErrorKind == "JSONDecodeError"

StatusErrorKind_SameAsJson == JsonErrorKind

StatusErrorKind == "HTTPError"

NoResult == [tag |-> "none", v |-> <<>>]
BytesResult(b) == [tag |-> "bytes", v |-> b]
JsonResult(j) == [tag |-> "json", v |-> j]

NoError == [kind |-> "none", attempt |-> 0]

VARIABLES
    service,         \* the outcomes a POST to the OCR service can have
    requestsJsonErr, \* the installed requests raises its own JSONDecodeError,
                     \* a RequestException (2.27 and later), from resp.json()
    inExists,        \* the input directory exists
    inDir,           \* input directory: name -> entry
    outExists,       \* the output directory exists
    outDir,          \* output directory: name -> file
    pc,              \* where the worker is: idle, loop, post, write, unlink, exit
    runs,            \* runs started so far
    exitCode,        \* exit status of the last finished run, -1 before
    files,           \* process_files: the sorted snapshot of regular files
    idx,             \* process_files: position of the loop in files
    data,            \* process_files: the bytes read from the current file
    result,          \* process_files: what call_ocr returned
    attempt,         \* call_ocr: the loop variable
    posts,           \* POST requests made by the current call
    sleeps,          \* the time.sleep arguments of the current call, in order
    errors,          \* kind of the exception of each failed attempt of the current call
    lastResp,        \* outcome of the latest POST of the current call
    raised,          \* the exception the current call raised, with its attempt
    outcome,         \* per name, how this run ended for it
    prevOutcome,     \* per name, how the run before this one ended for it
    steps,           \* per name, the result of each step this run took for it
    artifact,        \* per name, the path and bytes of the artifact this run wrote
    calls,           \* the names call_ocr was invoked for in this run, in order
    ocr_url,         \* main: the base URL of the OCR service (OCR_SERVICE_URL)
    url,             \* call_ocr: the endpoint built from the base URL, "" before
    metered,         \* whether the POSTs of a run are counted over all its calls
    runPosts         \* in a metered behaviour, the POST requests made in this run

vars == <<service, requestsJsonErr, inExists, inDir, outExists, outDir, pc, runs, exitCode,
          files, idx, data, result, attempt, posts, sleeps, errors, lastResp,
          raised, outcome, prevOutcome, steps, artifact, calls, ocr_url, url, metered,
          runPosts>>

fsVars == <<inExists, inDir, outExists, outDir>>
callVars == <<attempt, posts, sleeps, errors, lastResp, raised>>

NoArtifact == [path |-> <<>>, data |-> <<>>]

NoSteps == [read |-> "-", submit |-> "-", write |-> "-", unlink |-> "-"]

\* The attempt counter lives on from the call before.
CallReset_KeepAttempt ==
    /\ attempt' = attempt
    /\ posts' = 0
    /\ sleeps' = <<>>
    /\ errors' = <<>>
    /\ lastResp' = NetError
    /\ raised' = NoError

\* The locals of call_ocr before its first attempt.
CallReset ==
    /\ attempt' = 1
    /\ posts' = 0
    /\ sleeps' = <<>>
    /\ errors' = <<>>
    /\ lastResp' = NetError
    /\ raised' = NoError

\* The state before the first run, in one of the given deployments.
InitIn(deployments, meter, urls) ==
    /\ inExists \in BOOLEAN
    /\ metered = meter
    /\ ocr_url \in urls
    /\ url = <<>>
    /\ \E d \in deployments :
          /\ service = d.service
          /\ requestsJsonErr = d.jsonErr
          /\ inDir = IF inExists THEN d.dir ELSE [n \in Names |-> NoEntry]
    /\ outExists \in BOOLEAN
    /\ outDir = [p \in OutNames |-> NoFile]
    /\ pc = "idle"
    /\ runs = 0
    /\ exitCode = -1
    /\ files = <<>>
    /\ idx = 1
    /\ data = <<>>
    /\ result = NoResult
    /\ attempt = 1
    /\ posts = 0
    /\ sleeps = <<>>
    /\ errors = <<>>
    /\ lastResp = NetError
    /\ raised = NoError
    /\ outcome = [n \in Names |-> "none"]
    /\ prevOutcome = [n \in Names |-> "none"]
    /\ steps = [n \in Names |-> NoSteps]
    /\ artifact = [n \in Names |-> NoArtifact]
    /\ calls = <<>>
    /\ runPosts = 0

Init == InitIn(Deployments, FALSE, {DEFAULT_OCR_URL})

\* The start of the behaviours in which the POSTs of a run are counted.
InitMetered == InitIn(MeteredDeployments, TRUE, {DEFAULT_OCR_URL})

\* ------------------------------------------------------------------------
\* process_files
\* ------------------------------------------------------------------------

\* The regular files in descending order of name.
ListFiles_Reversed(dir) ==
    LET asc == SortedSeq({n \in Names : dir[n].kind = "file"})
    IN  [k \in 1..Len(asc) |-> asc[Len(asc) + 1 - k]]

\* files = [f for f in sorted(p_in.iterdir()) if f.is_file()]
ListFiles(dir) == SortedSeq({n \in Names : dir[n].kind = "file"})

\* The position of the loop is kept from the run before.
StartRun_Resume ==
    /\ pc \in {"idle", "exit"}
    /\ runs < MaxRuns
    /\ runs' = runs + 1
    /\ outExists' = TRUE
    /\ outcome' = [n \in Names |-> "none"]
    /\ prevOutcome' = outcome
    /\ steps' = [n \in Names |-> NoSteps]
    /\ artifact' = [n \in Names |-> NoArtifact]
    /\ calls' = <<>>
    /\ runPosts' = 0
    /\ idx' = (IF runs = 0 THEN 1 ELSE idx)
    /\ data' = <<>>
    /\ result' = NoResult
    /\ CallReset
    /\ IF ~inExists
       THEN /\ files' = <<>>
            /\ pc' = "exit"
            /\ exitCode' = 0
       ELSE /\ files' = ListFiles(inDir)
            /\ pc' = "loop"
            /\ exitCode' = -1
    /\ UNCHANGED <<service, requestsJsonErr, ocr_url, url, metered, inExists, inDir, outDir>>

\* The input directory is checked before the output directory is made.
StartRun_CheckFirst ==
    /\ pc \in {"idle", "exit"}
    /\ runs < MaxRuns
    /\ runs' = runs + 1
    /\ outExists' = (inExists \/ outExists)
    /\ outcome' = [n \in Names |-> "none"]
    /\ prevOutcome' = outcome
    /\ steps' = [n \in Names |-> NoSteps]
    /\ artifact' = [n \in Names |-> NoArtifact]
    /\ calls' = <<>>
    /\ runPosts' = 0
    /\ idx' = 1
    /\ data' = <<>>
    /\ result' = NoResult
    /\ CallReset
    /\ IF ~inExists
       THEN /\ files' = <<>>
            /\ pc' = "exit"
            /\ exitCode' = 0
       ELSE /\ files' = ListFiles(inDir)
            /\ pc' = "loop"
            /\ exitCode' = -1
    /\ UNCHANGED <<service, requestsJsonErr, ocr_url, url, metered, inExists, inDir, outDir>>

\* main() calls process_files: mkdir of the output directory, the check of
\* the input directory, and the enumeration.
StartRun ==
    /\ pc \in {"idle", "exit"}
    /\ runs < MaxRuns
    /\ runs' = runs + 1
    /\ outExists' = TRUE
    /\ outcome' = [n \in Names |-> "none"]
    /\ prevOutcome' = outcome
    /\ steps' = [n \in Names |-> NoSteps]
    /\ artifact' = [n \in Names |-> NoArtifact]
    /\ calls' = <<>>
    /\ runPosts' = 0
    /\ idx' = 1
    /\ data' = <<>>
    /\ result' = NoResult
    /\ CallReset
    /\ IF ~inExists
       THEN /\ files' = <<>>
            /\ pc' = "exit"
            /\ exitCode' = 0
       ELSE /\ files' = ListFiles(inDir)
            /\ pc' = "loop"
            /\ exitCode' = -1
    /\ UNCHANGED <<service, requestsJsonErr, ocr_url, url, metered, inExists, inDir, outDir>>

\* The exception leaves process_files: the run ends there, without exit code 0.
FailFile_Escape(f) ==
    /\ outcome' = [outcome EXCEPT ![f] = "failed"]
    /\ idx' = idx
    /\ pc' = "exit"

FailFile_Abort(f) ==
    /\ outcome' = [outcome EXCEPT ![f] = "failed"]
    /\ idx' = Len(files) + 1
    /\ pc' = "loop"

\* `except Exception: logger.exception("Failed to process ...")`, and on to
\* the next file.
FailFile(f) ==
    /\ outcome' = [outcome EXCEPT ![f] = "failed"]
    /\ idx' = idx + 1
    /\ pc' = "loop"

\* Loop head, a file whose suffix is not allowed: `continue`.
Skip ==
    /\ pc = "loop"
    /\ idx <= Len(files)
    /\ ~Allowed(files[idx])
    /\ outcome' = [outcome EXCEPT ![files[idx]] = "skipped"]
    /\ idx' = idx + 1
    /\ data' = <<>>
    /\ result' = NoResult
    /\ CallReset
    /\ UNCHANGED <<service, requestsJsonErr, artifact, fsVars, pc, runs, exitCode, files, steps,
                   calls, ocr_url, url, metered, prevOutcome, runPosts>>

\* Loop head, an allowed file: f.stat(), f.open("rb"), fh.read(), and the
\* entry into call_ocr, which builds the endpoint.  Any of the three file operations may raise OSError.
ReadFile ==
    /\ pc = "loop"
    /\ idx <= Len(files)
    /\ Allowed(files[idx])
    /\ result' = NoResult
    /\ CallReset
    /\ \/ /\ inDir[files[idx]].kind = "file"
          /\ data' = inDir[files[idx]].data
          /\ steps' = [steps EXCEPT ![files[idx]].read = "ok"]
          /\ calls' = Append(calls, files[idx])
          /\ url' = BuildUrl(ocr_url)
          /\ pc' = "post"
          /\ UNCHANGED <<idx, outcome>>
       \/ /\ data' = <<>>
          /\ steps' = [steps EXCEPT ![files[idx]].read = "fail"]
          /\ calls' = calls
          /\ url' = url
          /\ FailFile(files[idx])
    /\ UNCHANGED <<service, requestsJsonErr, artifact, fsVars, runs, exitCode, files, ocr_url,
                   metered, prevOutcome, runPosts>>

\* What the try body of one attempt does with the outcome of requests.post:
\* it returns a result, or raises an exception that the
\* `except requests.RequestException` clause does or does not catch.
TryBody(resp) ==
    IF resp = NetError
    THEN [do |-> "raise", kind |-> NetworkErrorKind, caught |-> TRUE, result |-> NoResult]
    ELSE IF RaisesForStatus(resp.status)
    THEN [do |-> "raise", kind |-> StatusErrorKind, caught |-> TRUE, result |-> NoResult]
    ELSE IF IsJsonResponse(resp)
    THEN IF RespJson(resp).ok
         THEN [do |-> "return", kind |-> "none", caught |-> FALSE,
               result |-> JsonResult(RespJson(resp).v)]
         ELSE [do |-> "raise", kind |-> JsonErrorKind, caught |-> requestsJsonErr,
               result |-> NoResult]
    ELSE [do |-> "return", kind |-> "none", caught |-> FALSE,
          result |-> BytesResult(resp.body)]

\* One iteration of `for attempt in range(1, 4)`: the POST, the try body, and
\* the handler (re-raise on the final attempt, else sleep and go round).  An
\* exception leaving call_ocr is caught by process_files, which logs it and
\* goes on to the next file.
Post ==
    /\ pc = "post"
    /\ \E o \in service :
         LET t == TryBody(o) IN
         /\ posts' = posts + 1
         /\ runPosts' = IF metered THEN runPosts + 1 ELSE runPosts
         /\ errors' = IF t.do = "raise" THEN Append(errors, t.kind) ELSE errors
         /\ lastResp' = o
         /\ IF t.do = "return"
            THEN /\ result' = t.result
                 /\ steps' = [steps EXCEPT ![files[idx]].submit = "ok"]
                 /\ pc' = "write"
                 /\ UNCHANGED <<attempt, sleeps, raised, idx, outcome>>
            ELSE IF t.caught /\ ~IsFinalAttempt(attempt)
            THEN /\ sleeps' = Append(sleeps, Backoff(attempt))
                 /\ attempt' = attempt + 1
                 /\ UNCHANGED <<result, steps, pc, raised, idx, outcome>>
            ELSE /\ raised' = [kind |-> t.kind, attempt |-> attempt]
                 /\ steps' = [steps EXCEPT ![files[idx]].submit = "fail"]
                 /\ FailFile(files[idx])
                 /\ UNCHANGED <<result, attempt, sleeps>>
    /\ UNCHANGED <<service, requestsJsonErr, artifact, fsVars, runs, exitCode, files, data, calls,
                   ocr_url, url, metered, prevOutcome>>

\* isinstance(result, (bytes, bytearray))
IsBytes(res) == res.tag = "bytes"

\* The artifact is named without the name of the input file.
ArtifactName_Fixed(name, res) == IF IsBytes(res) THEN PdfOutName(N_A) ELSE JsonOutName(N_A)

\* out_file.name: f.name + ".processed.pdf" for bytes, f.name + ".json" otherwise.
ArtifactName(name, res) == IF IsBytes(res) THEN PdfOutName(name) ELSE JsonOutName(name)

\* The text json.dump produces for a non-bytes result.
ArtifactText(res) == Dumps(res.v, 0)

\* Whether every byte of the artifact can be produced: always for bytes; for
\* text, unless the UTF-8 codec of the file rejects a character.
Writable(res) == IF IsBytes(res) THEN TRUE ELSE Utf8Encodable(ArtifactText(res))

\* The part of a text before its first unencodable character.
EncodablePrefix(text) ==
    IF Utf8Encodable(text) THEN text
    ELSE Prefix(text, (CHOOSE k \in 1..Len(text) :
                          IsSurrogate(text[k]) /\ \A j \in 1..(k-1) : ~IsSurrogate(text[j])) - 1)

\* The bytes the write produces when nothing stops it (up to the first
\* unencodable character when the codec stops it).
ArtifactBytes(res) ==
    IF IsBytes(res) THEN res.v ELSE Utf8Encode(EncodablePrefix(ArtifactText(res)))

\* How much of the artifact a failed write may leave in the (created or
\* truncated) file: nothing, or all but the last byte.
PartialLens(bytes) == {0} \cup {k \in {Len(bytes) - 1} : k > 0}

AfterWrite_AlwaysUnlink(written) == "unlink"

\* Where control goes after the write: on to the unlink when the artifact
\* was written, to the `except Exception` clause (and the next file) when the
\* open or the write raised.
AfterWrite(written) == IF written THEN "unlink" ELSE "loop"

\* out_file.open(...) and of.write(...) / json.dump(..., of): the open raises
\* OSError and nothing is created; or the file is created or truncated and
\* written completely; or the write raises (OSError, or UnicodeEncodeError
\* from the text codec) and leaves a prefix behind.
WriteArtifact ==
    /\ pc = "write"
    /\ LET f == files[idx]
           out == ArtifactName(f, result)
           bytes == ArtifactBytes(result)
       IN  \/ /\ outDir' = outDir
              /\ steps' = [steps EXCEPT ![f].write = "fail"]
              /\ outcome' = [outcome EXCEPT ![f] = "failed"]
              /\ pc' = AfterWrite(FALSE)
              /\ idx' = IF AfterWrite(FALSE) = "loop" THEN idx + 1 ELSE idx
              /\ UNCHANGED artifact
           \/ /\ Writable(result)
              /\ outDir' = [outDir EXCEPT ![out] = File(bytes)]
              /\ steps' = [steps EXCEPT ![f].write = "ok"]
              /\ artifact' = [artifact EXCEPT ![f] = [path |-> out, data |-> bytes]]
              /\ pc' = AfterWrite(TRUE)
              /\ UNCHANGED <<idx, outcome>>
           \/ /\ \E k \in PartialLens(bytes) :
                    outDir' = [outDir EXCEPT ![out] = File(Prefix(bytes, k))]
              /\ steps' = [steps EXCEPT ![f].write = "fail"]
              /\ outcome' = [outcome EXCEPT ![f] = "failed"]
              /\ pc' = AfterWrite(FALSE)
              /\ idx' = IF AfterWrite(FALSE) = "loop" THEN idx + 1 ELSE idx
              /\ UNCHANGED artifact
    /\ CallReset
    /\ UNCHANGED <<service, requestsJsonErr, inExists, inDir, outExists, runs, exitCode,
                   files, data, result, calls, ocr_url, url, metered, prevOutcome, runPosts>>

\* f.unlink() inside its own try: a failure is logged as a warning only.
Unlink ==
    /\ pc = "unlink"
    /\ LET f == files[idx] IN
       /\ \/ /\ inDir' = [inDir EXCEPT ![f] = NoEntry]
             /\ steps' = [steps EXCEPT ![f].unlink = "ok"]
          \/ /\ inDir' = inDir
             /\ steps' = [steps EXCEPT ![f].unlink = "fail"]
       /\ outcome' = [outcome EXCEPT ![f] = "succeeded"]
    /\ idx' = idx + 1
    /\ pc' = "loop"
    /\ UNCHANGED <<service, requestsJsonErr, artifact, inExists, outExists, outDir, runs, exitCode,
                   files, data, result, callVars, calls, ocr_url, url, metered, prevOutcome, runPosts>>

\* The loop is exhausted: process_files returns, main logs and the process
\* ends with status 0.
Return ==
    /\ pc = "loop"
    /\ idx > Len(files)
    /\ pc' = "exit"
    /\ exitCode' = 0
    /\ data' = <<>>
    /\ result' = NoResult
    /\ CallReset
    /\ UNCHANGED <<service, requestsJsonErr, artifact, fsVars, runs, files, idx, outcome, steps,
                   calls, ocr_url, url, metered, prevOutcome, runPosts>>

Next == StartRun \/ Skip \/ ReadFile \/ Post \/ WriteArtifact \/ Unlink \/ Return

Spec == Init /\ [][Next]_vars

\* _build_url on its own: the endpoint of a base URL, before any run.
BuildUrlStep ==
    /\ pc = "idle"
    /\ url = <<>>
    /\ url' = BuildUrl(ocr_url)
    /\ UNCHANGED <<service, requestsJsonErr, fsVars, pc, runs, exitCode, files, idx, data,
                   result, callVars, outcome, prevOutcome, steps, artifact, calls, ocr_url,
                   metered, runPosts>>

\* The start of the behaviours that build the endpoint of every base URL of
\* BaseUrls.
InitUrl == InitIn(MeteredDeployments, FALSE, BaseUrls) /\ inExists /\ outExists

UrlSpec == InitUrl /\ [][BuildUrlStep]_vars

\* The steps of a started run.  The worker is one sequential thread: a step
\* that can be taken is taken (each POST ends, by its response or its timeout).
RunStep == Skip \/ ReadFile \/ Post \/ WriteArtifact \/ Unlink \/ Return

FairSpec == InitMetered /\ [][Next]_vars /\ WF_vars(RunStep)

\* ------------------------------------------------------------------------
\* Properties
\* ------------------------------------------------------------------------

\* The call of the current file has ended by raising.
CallRaised == raised # NoError

\* The latest POST got a response (not a network error).
GotResponse == posts > 0 /\ lastResp # NetError

Is2xx(status) == status >= 200 /\ status <= 299

\* The complete content of the artifact of a result: the bytes themselves, or
\* the UTF-8 encoding of the JSON text.
CompleteArtifact(res) ==
    IF res.tag = "bytes" THEN res.v ELSE Utf8Encode(Dumps(res.v, 0))

\* The path of the artifact of a result for the file called name.
ExpectedPath(name, res) ==
    IF res.tag = "bytes" THEN name \o PROCESSED_PDF ELSE name \o DOT_JSON

\* The files of the start directory with an allow-listed extension, and those
\* without one (".pdf" alone is a name without suffix).
EligibleNames == {N_B, N_A}
IneligibleNames == {N_HIDDEN, N_C}

\* C1: when every attempt of a call failed with a network error or an HTTP
\* error status, the call made exactly 3 POSTs, slept 1 s and then 2 s (and
\* not after the third failure), and raised the error of the third attempt.
C1_ThreeAttemptsThenRaise ==
    (CallRaised /\ \A k \in 1..Len(errors) : errors[k] \in {"ConnectionError", "HTTPError"})
    => /\ posts = 3
       /\ Len(errors) = 3
       /\ sleeps = <<1, 2>>
       /\ raised.attempt = 3
       /\ raised.kind = errors[3]
       /\ raised.kind = IF lastResp = NetError THEN "ConnectionError" ELSE "HTTPError"

C1_Witness ==
    /\ CallRaised
    /\ errors = <<"ConnectionError", "HTTPError", "HTTPError">>
    /\ sleeps = <<1, 2>>

\* C2 (as claimed): a 2xx response that declares JSON and whose body does not
\* parse ends the call at once: the call has raised the decoding error on that
\* very attempt, with no sleep after it and no further POST.
C2_JsonErrorRaisedAtOnce ==
    (GotResponse /\ Is2xx(lastResp.status) /\ IsJsonResponse(lastResp)
        /\ ~RespJson(lastResp).ok)
    => /\ CallRaised
       /\ raised.kind = "JSONDecodeError"
       /\ raised.attempt = posts
       /\ Len(sleeps) = posts - 1

\* C3 (as claimed): a response whose status is outside 200..299 is never
\* returned as a result: the attempt counts as a failure.
C3_NonSuccessStatusFails ==
    (GotResponse /\ ~Is2xx(lastResp.status))
    => /\ result = NoResult
       /\ pc # "write"
       /\ Len(errors) = posts

C5_VariantFromContentType ==
    (pc = "write" /\ Is2xx(lastResp.status))
    => IF lastResp.ctype \in {APPLICATION_JSON, CT_JSON_CHARSET}
       THEN /\ result.tag = "json"
            /\ Loads(Utf8Decode(lastResp.body)).ok
            /\ result.v = Loads(Utf8Decode(lastResp.body)).v
       ELSE /\ result.tag = "bytes"
            /\ result.v = lastResp.body

C5_Witness ==
    /\ pc = "write"
    /\ lastResp = [status |-> 200, ctype |-> NoHeader, body |-> B_OBJ]
    /\ result = BytesResult(B_OBJ)

C7_IneligibleUntouched ==
    \A n \in IneligibleNames :
       /\ steps[n] = NoSteps
       /\ outcome[n] \in {"none", "skipped"}
       /\ inDir[n] = IF inExists /\ service = FewOutcomes THEN InitialInDir[n] ELSE NoEntry
       /\ ~outDir[n \o PROCESSED_PDF].exists
       /\ ~outDir[n \o DOT_JSON].exists
       /\ (pc \in {"post", "write", "unlink"} => files[idx] # n)

C7_Witness ==
    /\ pc = "exit"
    /\ outcome[N_C] = "skipped"
    /\ outcome[N_HIDDEN] = "skipped"
    /\ outcome[N_B] = "failed"
    /\ outcome[N_A] = "succeeded"

\* C8 (as claimed): at the end of every run, also a later run, each file the
\* run processed successfully has exactly one artifact (not both), and its
\* input is gone unless the deletion failed.
C8_ExactlyOneArtifact ==
    pc = "exit"
    => \A n \in Names :
          outcome[n] = "succeeded"
          => /\ outDir[n \o PROCESSED_PDF].exists # outDir[n \o DOT_JSON].exists
             /\ steps[n].unlink = "ok" => inDir[n] = NoEntry
             /\ steps[n].unlink = "fail" => inDir[n] # NoEntry

\* C9: an input file disappears only in the unlink step of its own
\* iteration, after its artifact was written completely; in every state a
\* file the run deleted has its complete artifact in the output directory;
\* and a file that failed is still in the input directory.
C9_DeleteOnlyAfterWrite ==
    /\ [](\A n \in Names :
            /\ outcome[n] = "failed" => inDir[n].kind = "file"
            /\ steps[n].unlink = "ok"
               => /\ inDir[n] = NoEntry
                  /\ artifact[n] # NoArtifact
                  /\ outDir[artifact[n].path] = File(artifact[n].data))
    /\ [][ \A n \in Names :
              (inDir[n] # NoEntry /\ inDir'[n] = NoEntry)
              => /\ pc = "unlink"
                 /\ n = files[idx]
                 /\ steps[n].write = "ok"
                 /\ outcome[n] # "failed"
                 /\ artifact[n] = [path |-> ExpectedPath(n, result),
                                   data |-> CompleteArtifact(result)]
                 /\ outDir[ExpectedPath(n, result)] = File(CompleteArtifact(result))
                 /\ outDir' = outDir
         ]_vars

C9_Witness ==
    /\ pc = "exit"
    /\ steps[N_B].write = "fail"
    /\ inDir[N_B].kind = "file"
    /\ steps[N_A].unlink = "ok"
    /\ inDir[N_A] = NoEntry

\* C10: at the end of a run every eligible file of the snapshot has been
\* attempted, whatever happened to the files before it, and its outcome is
\* decided by its own steps: it succeeded exactly when its read, its submit
\* and its write succeeded, and then its unlink was attempted.
C10_FailureIsolated ==
    pc = "exit"
    => \A k \in 1..Len(files) :
          LET g == files[k] IN
          g \in EligibleNames
          => /\ steps[g].read \in {"ok", "fail"}
             /\ steps[g].read = "ok" => steps[g].submit \in {"ok", "fail"}
             /\ steps[g].submit = "ok" => steps[g].write \in {"ok", "fail"}
             /\ steps[g].write = "ok" => steps[g].unlink \in {"ok", "fail"}
             /\ outcome[g] = IF steps[g].write = "ok" THEN "succeeded" ELSE "failed"
             /\ steps[g].unlink = "ok" => inDir[g] = NoEntry

C10_Witness ==
    /\ pc = "exit"
    /\ steps[N_B].submit = "fail"
    /\ outcome[N_B] = "failed"
    /\ outcome[N_A] = "succeeded"
    /\ steps[N_A].unlink = "ok"

\* C11: whatever the outcomes of the files (failures at read, submit, decode,
\* write or delete, of any of them or all), no error leaves process_files:
\* every failure goes on to the next file, the loop runs to its end, and the
\* process ends with exit code 0; there is no other exit code.
C11_NoErrorEscapes ==
    /\ exitCode \in {-1, 0}
    /\ pc = "exit" <=> exitCode = 0
    /\ pc = "exit"
       => /\ idx = Len(files) + 1
          /\ \A k \in 1..Len(files) :
                outcome[files[k]] \in {"skipped", "succeeded", "failed"}
    /\ \A n \in Names :
          (outcome[n] = "failed" /\ pc \in {"post", "write", "unlink"}) => files[idx] # n

C11_Witness ==
    /\ pc = "exit"
    /\ exitCode = 0
    /\ steps[N_B].read = "fail"
    /\ steps[N_A].write = "fail"
    /\ outcome[N_B] = "failed"
    /\ outcome[N_A] = "failed"

\* The positions of the snapshot that hold a file with an allow-listed
\* extension, and how often a name occurs in a sequence.
EligiblePositions == {k \in 1..Len(files) : Lower(Suffix(files[k])) \in allowed_exts}
Occurrences(seq, x) == Cardinality({k \in 1..Len(seq) : seq[k] = x})

\* C12: every started run reaches its end; at the end each regular file of
\* the snapshot with an allow-listed extension (in any case, as B.PNG) was
\* attempted exactly once; call_ocr is invoked at most once per file per run;
\* a failed file is never taken up again in the same run; and the POSTs of a
\* run number at most 3 times the eligible files.
C12_TerminatesOncePerFile ==
    /\ (pc \in {"loop", "post", "write", "unlink"}) ~> (pc = "exit")
    /\ [](/\ \A n \in Names : Occurrences(calls, n) <= 1
          /\ runPosts <= 3 * Cardinality(EligiblePositions)
          /\ pc = "exit"
             => \A k \in EligiblePositions :
                   /\ steps[files[k]].read \in {"ok", "fail"}
                   /\ outcome[files[k]] \in {"succeeded", "failed"}
                   /\ Occurrences(calls, files[k])
                        = IF steps[files[k]].read = "ok" THEN 1 ELSE 0)
    /\ [][ runs' = runs
           => /\ idx' \in {idx, idx + 1}
              /\ \A n \in Names :
                    outcome[n] = "failed"
                    => /\ outcome'[n] = "failed"
                       /\ steps'[n] = steps[n]
                       /\ calls' # calls => calls'[Len(calls')] # n
         ]_vars

C12_Witness ==
    /\ pc = "exit"
    /\ files = <<N_HIDDEN, N_B, N_A, N_C>>
    /\ calls = <<N_B, N_A>>
    /\ runPosts = 6
    /\ outcome[N_B] = "failed"
    /\ outcome[N_A] = "failed"

\* C13: a run started without an input directory is empty and no error: it
\* has ended with exit code 0, made no POST, read, written and deleted
\* nothing; and the output directory exists nevertheless.
C13_MissingInputDirEmptyRun ==
    (~inExists /\ runs > 0)
    => /\ pc = "exit"
       /\ exitCode = 0
       /\ outExists
       /\ files = <<>>
       /\ calls = <<>>
       /\ posts = 0
       /\ \A n \in Names :
             /\ steps[n] = NoSteps
             /\ outcome[n] = "none"
             /\ artifact[n] = NoArtifact
             /\ inDir[n] = NoEntry
       /\ \A p \in OutNames : outDir[p] = NoFile

C13_Witness ==
    /\ ~inExists
    /\ runs = 2
    /\ pc = "exit"
    /\ outExists
    /\ exitCode = 0

\* What C14 says of every state, up to how a re-run file ends: a file the run
\* before left failed is in the snapshot of this run and, at the end of the
\* run, was read again and (once read) submitted again; its call starts over,
\* so a call that raises a network or status error has made 3 POSTs with
\* sleeps of 1 s and 2 s, whatever happened in the run before.
C14_Reattempted ==
    /\ pc = "post" => attempt = posts + 1 /\ attempt <= 3
    /\ \A n \in Names :
          prevOutcome[n] = "failed"
          => /\ \E k \in 1..Len(files) : files[k] = n
             /\ pc = "exit"
                => /\ steps[n].read \in {"ok", "fail"}
                   /\ steps[n].read = "ok" => steps[n].submit \in {"ok", "fail"}
             /\ (CallRaised /\ idx > 1 /\ files[idx - 1] = n
                    /\ raised.kind \in {"ConnectionError", "HTTPError"})
                => /\ posts = 3
                   /\ sleeps = <<1, 2>>
                   /\ raised.attempt = 3

\* C14 (as claimed): ..., and a file that failed in the run before and whose
\* service call succeeds in this run ends this run succeeded.
C14_ServedMeansSucceeded ==
    /\ C14_Reattempted
    /\ \A n \in Names :
          (pc = "exit" /\ prevOutcome[n] = "failed" /\ steps[n].submit = "ok")
          => outcome[n] = "succeeded"

\* C14 (amended): nothing but the filesystem passes from one run to the next:
\* the step that starts a run sets every local of process_files and call_ocr
\* anew and takes its snapshot from the directory as it is; a file the run
\* before left failed is read and submitted again with a fresh budget of 3
\* attempts; and it ends the run succeeded when its service call and the
\* write of its artifact succeed, failed when the write fails.
C14_RunsShareOnlyFiles ==
    /\ []C14_Reattempted
    /\ [](\A n \in Names :
            (pc = "exit" /\ prevOutcome[n] = "failed" /\ steps[n].submit = "ok")
            => outcome[n] = IF steps[n].write = "ok" THEN "succeeded" ELSE "failed")
    /\ [][ runs' # runs
           => /\ files' = (IF inExists THEN ListFiles(inDir) ELSE <<>>)
              /\ idx' = 1
              /\ data' = <<>>
              /\ result' = NoResult
              /\ attempt' = 1
              /\ posts' = 0
              /\ sleeps' = <<>>
              /\ raised' = NoError
              /\ inDir' = inDir
              /\ outDir' = outDir
         ]_vars

C14_Witness ==
    /\ runs = 2
    /\ pc = "exit"
    /\ prevOutcome[N_A] = "failed"
    /\ outcome[N_A] = "succeeded"
    /\ steps[N_A].unlink = "ok"
    /\ inDir[N_A] = NoEntry

\* Whether name a comes strictly before name b in lexicographic order of
\* code points: at the first position where they differ, a has ended or has
\* the smaller code point.
NameBefore(a, b) ==
    \E k \in 1..Len(b) :
       /\ \A j \in 1..(k - 1) : j <= Len(a) /\ a[j] = b[j]
       /\ IF k > Len(a) THEN TRUE ELSE a[k] < b[k]

\* Whether the run has begun, and whether it has finished, the file at
\* position k of the snapshot.
Begun(k) == steps[files[k]] # NoSteps \/ outcome[files[k]] # "none"
Finished(k) == outcome[files[k]] \in {"skipped", "succeeded", "failed"}

\* C15: the files of a run are taken one at a time in ascending
\* lexicographic order of name: the snapshot and the sequence of call_ocr
\* invocations are strictly ascending; every file before the current one is
\* finished and none after it has begun; and each step (read, POST, sleep,
\* write, delete) belongs to the current file and to no other.
C15_SequentialInNameOrder ==
    /\ [](/\ \A i, j \in 1..Len(files) : i < j => NameBefore(files[i], files[j])
          /\ \A i, j \in 1..Len(calls) : i < j => NameBefore(calls[i], calls[j])
          /\ pc \in {"loop", "post", "write", "unlink", "exit"}
             => /\ \A k \in 1..Len(files) :
                      /\ k < idx => Finished(k)
                      /\ k > idx => ~Begun(k)
                /\ pc \in {"post", "write", "unlink"}
                   => /\ idx <= Len(files)
                      /\ calls[Len(calls)] = files[idx]
                      /\ ~Finished(idx))
    /\ [][ /\ \A n \in Names :
                (steps'[n] # steps[n] /\ runs' = runs) => n = files[idx]
           /\ (posts' # posts \/ sleeps' # sleeps) /\ runs' = runs
              => (pc = "post" /\ (idx' = idx \/ idx' = idx + 1)) \/ posts' = 0
           /\ \A n \in Names : inDir'[n] # inDir[n] => n = files[idx]
           /\ \A n \in Names :
                (outDir'[PdfOutName(n)] # outDir[PdfOutName(n)]
                    \/ outDir'[JsonOutName(n)] # outDir[JsonOutName(n)])
                => n = files[idx]
         ]_vars

C15_Witness ==
    /\ pc = "unlink"
    /\ files = <<N_HIDDEN, N_B, N_A, N_C>>
    /\ idx = 3
    /\ calls = <<N_B, N_A>>
    /\ outcome[N_B] = "succeeded"
    /\ steps[N_A].write = "ok"
    /\ steps[N_C] = NoSteps

\* C16: every call of call_ocr starts over: before its first POST the attempt
\* counter is 1 and nothing is left of an earlier call; during the call the
\* counter is one more than the POSTs made and the sleeps so far are 1 s and
\* then 2 s; so a call that ends in a network or status error has had its 3
\* attempts, whatever the calls before it spent.
C16_CallsIndependent ==
    /\ (pc = "post" /\ posts = 0)
       => /\ attempt = 1
          /\ sleeps = <<>>
          /\ errors = <<>>
          /\ raised = NoError
    /\ pc = "post"
       => /\ attempt = posts + 1
          /\ posts <= 2
          /\ Len(sleeps) = posts
    /\ Len(sleeps) <= 2
    /\ \A i \in 1..Len(sleeps) : sleeps[i] = 2 ^ (i - 1)
    /\ (CallRaised /\ raised.kind \in {"ConnectionError", "HTTPError"})
       => /\ posts = 3
          /\ sleeps = <<1, 2>>

C16_Witness ==
    /\ steps[N_B].submit = "fail"
    /\ outcome[N_B] = "failed"
    /\ idx = 4
    /\ files[3] = N_A
    /\ CallRaised
    /\ raised = [kind |-> "ConnectionError", attempt |-> 3]
    /\ posts = 3
    /\ sleeps = <<1, 2>>

\* The call of the current file has just returned (the state after the POST
\* it returned from).
CallReturned == pc = "write" /\ posts > 0

\* C17 (as claimed): a call returns from its first successful attempt (a 2xx
\* response) and from no other: when it has returned at attempt k, attempt k
\* got a 2xx response and the result is made of that response, the k - 1
\* attempts before it failed and were each followed by a sleep of 2^(i-1) s,
\* and exactly k POSTs were made; and a 2xx response whose body is usable is
\* followed by no further POST or sleep.
C17_ReturnsAtFirstSuccess ==
    /\ CallReturned
       => /\ Is2xx(lastResp.status)
          /\ posts = attempt
          /\ posts = Len(errors) + 1
          /\ sleeps = [i \in 1..(posts - 1) |-> 2 ^ (i - 1)]
          /\ result = IF IsJsonResponse(lastResp)
                      THEN JsonResult(RespJson(lastResp).v)
                      ELSE BytesResult(lastResp.body)
    /\ (GotResponse /\ Is2xx(lastResp.status)
          /\ (IsJsonResponse(lastResp) => RespJson(lastResp).ok))
       => CallReturned

\* The longest prefix of a text that does not end in "/".
WithoutTrailingSlashes(text) ==
    LET ends == {k \in 0..Len(text) : (k = 0 \/ text[k] # 47)
                                      /\ \A j \in (k + 1)..Len(text) : text[j] = 47}
    IN  SubSeq(text, 1, CHOOSE k \in ends : TRUE)

\* C18 (as claimed): for every base URL the endpoint is the base URL without
\* its trailing slashes, followed by "/process-pdf": path and query of the
\* base URL are kept.
C18_EndpointIsBasePlusSegment ==
    url # <<>>
    => url = WithoutTrailingSlashes(ocr_url) \o <<47>> \o PROCESS_PDF

\* C19: the map from (input name, result variant) to the output name is
\* injective; the artifacts one run wrote for two distinct input files are at
\* distinct paths, each named after its own input file; and each is in the
\* output directory with the bytes that were written for it until the run
\* ends: no other file's artifact, or failed write, replaced it.
C19_OutputNamesInjective ==
    /\ \A n1, n2 \in Names : \A r1, r2 \in {BytesResult(<<>>), JsonResult(<<>>)} :
          ArtifactName(n1, r1) = ArtifactName(n2, r2) => (n1 = n2 /\ r1 = r2)
    /\ \A n1, n2 \in Names :
          (n1 # n2 /\ artifact[n1] # NoArtifact /\ artifact[n2] # NoArtifact)
          => artifact[n1].path # artifact[n2].path
    /\ \A n \in Names :
          artifact[n] # NoArtifact
          => /\ artifact[n].path \in {PdfOutName(n), JsonOutName(n)}
             /\ outDir[artifact[n].path] = File(artifact[n].data)

\* A run ended in which it wrote a binary artifact for one file and a JSON
\* artifact with other bytes for another file.
C19_Witness ==
    /\ pc = "exit"
    /\ \E n1, n2 \in Names :
          /\ n1 # n2
          /\ artifact[n1].path = PdfOutName(n1)
          /\ artifact[n2].path = JsonOutName(n2)
          /\ artifact[n1].data # artifact[n2].data

\* C20 (as claimed): a file that ends a run Failed has no new or altered file
\* in the output directory: no step after which the file is Failed changes
\* what is at N.processed.pdf or N.json, so a failed artifact write leaves
\* no partial or empty file.
C20_FailedLeavesNoOutput ==
    [][ \A n \in Names :
           outcome'[n] = "failed"
           => /\ outDir'[PdfOutName(n)] = outDir[PdfOutName(n)]
              /\ outDir'[JsonOutName(n)] = outDir[JsonOutName(n)] ]_vars

====
